---- MODULE Spec2Model ----
(***************************************************************************)
(* The voice interaction coordinator of the chat front-end: the            *)
(* SpeechService singleton that arbitrates between speech recognition      *)
(* ("listening") and speech synthesis ("speaking") on top of the browser's *)
(* Web Speech API.                                                         *)
(*                                                                         *)
(* The repository ships two designs of the class under the same name:      *)
(*   impl = "A"  the promise-based service (unnamed/part_001, lines 1-133) *)
(*               used by App.tsx: isListening/isSpeaking flags, handlers   *)
(*               installed per startListening call as closures over the    *)
(*               promise, utterance handlers installed per speak call;     *)
(*   impl = "B"  the callback-based service (src/services/speechService.ts)*)
(*               used by VoiceChat.tsx: handlers installed once by         *)
(*               initialize(), isListening set by the platform's start     *)
(*               event, callbacks kept in two fields, no speaking flag.    *)
(* Init picks the one the build bundles; every action is guarded by it.    *)
(*                                                                         *)
(* The browser is the environment: SpeechRecognition (one recognizer       *)
(* object, start/stop, start/result/error/end events) and SpeechSynthesis  *)
(* (an utterance queue, speak/cancel, start/end/error events per           *)
(* utterance, events of cancelled utterances delivered asynchronously).    *)
(***************************************************************************)
EXTENDS Integers, Sequences, FiniteSets, TLC

\* Number of startListening calls made during a run.
MaxCalls == 2
\* Number of speak calls (utterances created) during a run.
MaxUtter == 2

VARIABLES
    impl,               \* which SpeechService class the build bundles
    apiPresent,         \* the browser exposes (webkit)SpeechRecognition
    speakingWhenQueued, \* synthesis.speaking is true as soon as an utterance is
                        \* queued (Chromium) or only once it has begun (W3C text)
    synthesisPresent,   \* 'speechSynthesis' in window
    hasSession,         \* App: currentSessionId is set (createSession has answered)
    \* ---- SpeechService fields
    recognition,        \* this.recognition !== null
    isListening,        \* this.isListening
    isSpeaking,         \* this.isSpeaking                       (A)
    currentUtterance,   \* this.currentUtterance, 0 = null       (A)
    currentLanguage,    \* this.currentLanguage                 (A)
    handlers,           \* the call whose resolve/reject the recognizer's
                        \* onresult/onerror closures hold, 0 = none   (A)
    onResultCallback,   \* this.onResultCallback, 0 = null       (B)
    onErrorCallback,    \* this.onErrorCallback, 0 = null        (B)
    \* ---- SpeechRecognition object of the browser
    recState,           \* idle | starting | active | stopping | aborted | closing
    recCaller,          \* the call whose recognition.start() began the capture
    recLang,            \* recognition.lang, "" while there is no recognizer
    capLang,            \* the language the capture in flight was started with:
                        \* start() reads recognition.lang once, "" = no capture
    \* ---- SpeechSynthesis object of the browser
    synQueue,           \* utterances queued or playing, head first
    synStarted,         \* the head utterance has begun being spoken
    synStale,           \* cancelled utterances whose final event is still to come,
                        \* each with the method that cancelled it
    \* ---- callers
    nextCall,           \* id of the next startListening call
    nextUtter,          \* id of the next utterance
    outcome,            \* per call: what its promise / callbacks received last
    last,               \* the operation or event handled last
    \* ---- the utterance handed to the platform last
    uttParams,          \* its rate, pitch and volume, in tenths
    uttText,            \* its text
    \* ---- App component (App.tsx), on top of service A
    messageText,        \* per chat message: its content as the UI holds it
    uiListening,        \* isListening state of the component
    speakingMessageId,  \* speakingMessageId state, "" = null
    isLoading,          \* isLoading state: the input controls are disabled
    timers,             \* armed estimated-duration timers, by utterance
    awaited,            \* startListening calls a handleVoiceToggle awaits
    saving,             \* handleSendMessage runs awaiting saveMessage, each
                        \* with its content and its isVoiceMessage
    requests            \* generateResponse calls not answered yet, likewise

svcVars   == <<recognition, isListening, isSpeaking, currentUtterance,
               handlers, onResultCallback, onErrorCallback>>
recVars   == <<recState, recCaller>>
langVars  == <<currentLanguage, recLang, capLang>>
synVars   == <<synQueue, synStarted, synStale>>
callVars  == <<nextCall, outcome>>
envVars   == <<impl, apiPresent, speakingWhenQueued, synthesisPresent, hasSession>>
uttVars   == <<uttParams, uttText>>
uiVars    == <<messageText, uiListening, speakingMessageId, isLoading, timers,
               awaited, saving, requests>>
vars      == <<envVars, svcVars, recVars, langVars, synVars, callVars, nextUtter,
               last, uttVars, uiVars>>

Calls      == 1..MaxCalls
Utterances == 1..MaxUtter
\* A sentence, and a result whose transcript is empty.
Transcripts == {"hello", ""}
\* setLanguage(language: 'en-US' | 'sw-KE')
Languages  == {"en-US", "sw-KE"}
\* Message.id of the chat messages that can be spoken
MsgIds     == {"m1", "m2"}
\* SpeechRecognitionErrorEvent.error codes; "aborted" and "service-not-allowed"
\* are two of the codes getErrorMessage has no case for.
ErrorCodes == {"no-speech", "audio-capture", "not-allowed", "network",
               "aborted", "service-not-allowed"}
\* Texts handed to speak(): empty, whitespace only, and a sentence. None contains
\* the product name, so the pronunciation replace() of speak leaves each as it is.
Texts == {"", " ", "hi"}

None    == [st |-> "none",    val |-> ""]
Pending == [st |-> "pending", val |-> ""]
Toggled == [st |-> "toggled", val |-> ""]
Ok(t)   == [st |-> "ok",      val |-> t]
Err(m)  == [st |-> "err",     val |-> m]

\* Once the service holds no reference to a call any more (it is neither the
\* capture's caller nor the owner of the installed handlers or callbacks), all
\* that is kept of it is whether it was ever answered.
Retired == [st |-> "retired", val |-> ""]
Retire(o, refs) ==
    [c \in Calls |->
        IF c \in refs \/ o[c].st \in {"none", "pending"} THEN o[c] ELSE Retired]

Op(name, val) == [op |-> name, val |-> val]

SetOf(q) == {q[i] : i \in 1..Len(q)}

----------------------------------------------------------------------------
(* Messages                                                                *)

NotSupportedA  == "Speech recognition not supported"
NotSupportedB  == "Speech recognition not supported in this browser"
FailedToStart  == "Failed to start speech recognition"

\* A: reject(`Speech recognition error: ${event.error}`)
ErrorTextA(error) == "Speech recognition error: " \o error

\* B: getErrorMessage(error)
getErrorMessage(error) ==
    CASE error = "no-speech"     -> "No speech detected. Please try speaking again."
      [] error = "audio-capture" -> "Microphone not accessible. Please check permissions."
      [] error = "not-allowed"   -> "Microphone permission denied. Please allow microphone access."
      [] error = "network"       -> "Network error occurred. Please check your connection."
      [] OTHER                   -> "Speech recognition error. Please try again."

----------------------------------------------------------------------------
(* The browser's objects, as the services use them                         *)

\* recognition.start(): throws InvalidStateError on a recognizer that has been
\* started and has not fired its end event yet.
StartThrows == recState # "idle"

\* recognition.stop(): stop capturing; a capture that had begun may still return
\* a result from the audio captured so far, one that had not only ends.
RecAfterStop ==
    CASE recState = "starting" -> "aborted"
      [] recState = "active"   -> "stopping"
      [] OTHER                 -> recState

\* synthesis.speaking
SynthesisSpeaking ==
    IF speakingWhenQueued THEN synQueue # <<>> ELSE synStarted

\* A promise settles once; later resolve/reject calls are ignored.
Settle(id, result) ==
    IF outcome[id].st = "pending"
    THEN outcome' = [outcome EXCEPT ![id] = result]
    ELSE UNCHANGED outcome

\* A callback runs every time it is called.
CallBack(id, result) ==
    outcome' = [outcome EXCEPT ![id] = result]

----------------------------------------------------------------------------
\* The service and the browser's objects after construction.
ServiceInit ==
    /\ impl \in {"A", "B"}
    /\ apiPresent \in BOOLEAN
    \* only A reads synthesis.speaking
    /\ speakingWhenQueued \in (IF impl = "A" THEN BOOLEAN ELSE {FALSE})
    \* A builds the recognizer in its constructor, B in initialize()
    /\ recognition = (impl = "A" /\ apiPresent)
    /\ isListening = FALSE
    /\ isSpeaking = FALSE
    /\ currentUtterance = 0
    /\ currentLanguage = "en-US"
    \* this.recognition.lang = this.currentLanguage
    /\ recLang = (IF impl = "A" /\ apiPresent THEN "en-US" ELSE "")
    /\ capLang = ""
    /\ handlers = 0
    /\ onResultCallback = 0
    /\ onErrorCallback = 0
    /\ recState = "idle"
    /\ recCaller = 0
    /\ synQueue = <<>>
    /\ synStarted = FALSE
    /\ synStale = {}
    /\ nextCall = 1
    /\ nextUtter = 1
    /\ outcome = [c \in Calls |-> None]
    /\ last = Op("init", "")

\* No utterance has been handed to the platform yet.
UttInit ==
    /\ uttParams = [asked |-> <<>>, handed |-> <<>>]
    /\ uttText = [from |-> <<>>, handed |-> <<>>]

\* The App component after its first render: useState(false), useState(null),
\* no timer armed, nothing awaited, nothing sent.
UiInit ==
    /\ uiListening = FALSE
    /\ speakingMessageId = ""
    /\ isLoading = FALSE
    /\ timers = {}
    /\ awaited = {}
    /\ saving = {}
    /\ requests = {}

\* The services on a browser with speech synthesis, which every speak and
\* stopSpeaking path takes for granted.
Init ==
    /\ ServiceInit
    /\ synthesisPresent = TRUE
    /\ hasSession = TRUE
    /\ UttInit
    /\ UiInit
    /\ messageText = [m \in MsgIds |-> <<>>]

----------------------------------------------------------------------------
(* SpeechSynthesis as a value, so that a method can cancel and then speak  *)

SynState == [queue |-> synQueue, started |-> synStarted, stale |-> synStale]

SetSyn(s) ==
    /\ synQueue' = s.queue
    /\ synStarted' = s.started
    /\ synStale' = s.stale

\* synthesis.cancel(): every utterance leaves the queue; the browser fires the
\* final event of each of them later, as a task of its own.
SynCancel(s, by) ==
    [queue |-> <<>>, started |-> FALSE,
     stale |-> s.stale \cup {[u |-> x, by |-> by] : x \in SetOf(s.queue)}]

\* synthesis.speak(u): u joins the queue.
SynSpeak(s, u) == [s EXCEPT !.queue = Append(@, u)]

----------------------------------------------------------------------------
(* impl A: the promise-based service                                       *)

\* stopSpeaking(): what it leaves of the synthesis queue
StopSpeakingSynA(by) ==
    IF SynthesisSpeaking THEN SynCancel(SynState, by) ELSE SynState

\* stopSpeaking()
StopSpeakingA ==
    /\ impl = "A"
    /\ SetSyn(StopSpeakingSynA("stopSpeaking"))
    /\ isSpeaking' = FALSE
    /\ currentUtterance' = 0
    /\ last' = Op("stopSpeaking", "")
    /\ UNCHANGED <<envVars, uttVars, uiVars, langVars, recognition, isListening, handlers, onResultCallback,
                   onErrorCallback, recVars, callVars, nextUtter>>

\* startListening(), were it to stop the playback before it looks for the
\* recognizer
StartListeningA_StopsSpeechFirst ==
    /\ impl = "A"
    /\ nextCall <= MaxCalls
    /\ nextCall' = nextCall + 1
    /\ last' = Op("startListening", "")
    /\ SetSyn(StopSpeakingSynA("startListening"))
    /\ isSpeaking' = FALSE
    /\ currentUtterance' = 0
    /\ IF ~recognition
       THEN /\ outcome' = Retire([outcome EXCEPT ![nextCall] = Err(NotSupportedA)],
                                  {nextCall})
            /\ UNCHANGED <<isListening, handlers, recVars, capLang>>
       ELSE /\ handlers' = nextCall
            /\ IF StartThrows
               THEN /\ isListening' = FALSE
                    /\ outcome' = Retire([outcome EXCEPT ![nextCall] = Err(FailedToStart)],
                                          {nextCall, recCaller})
                    /\ UNCHANGED <<recVars, capLang>>
               ELSE /\ isListening' = TRUE
                    /\ outcome' = Retire([outcome EXCEPT ![nextCall] = Pending],
                                          {nextCall})
                    /\ recState' = "starting"
                    /\ recCaller' = nextCall
                    /\ capLang' = recLang
    /\ UNCHANGED <<envVars, uttVars, uiVars, currentLanguage, recLang, recognition, onResultCallback,
                   onErrorCallback, nextUtter>>

\* startListening(): Promise<string>
StartListeningA ==
    /\ impl = "A"
    /\ nextCall <= MaxCalls
    /\ nextCall' = nextCall + 1
    /\ last' = Op("startListening", "")
    /\ IF ~recognition
       THEN \* reject('Speech recognition not supported'); return
            /\ outcome' = Retire([outcome EXCEPT ![nextCall] = Err(NotSupportedA)],
                                  {nextCall})
            /\ UNCHANGED <<isListening, isSpeaking, currentUtterance, handlers,
                           recVars, capLang, synVars>>
       ELSE \* this.stopSpeaking(); the handlers are installed, then start()
            /\ SetSyn(StopSpeakingSynA("startListening"))
            /\ isSpeaking' = FALSE
            /\ currentUtterance' = 0
            /\ handlers' = nextCall
            /\ IF StartThrows
               THEN /\ isListening' = FALSE
                    /\ outcome' = Retire([outcome EXCEPT ![nextCall] = Err(FailedToStart)],
                                          {nextCall, recCaller})
                    /\ UNCHANGED <<recVars, capLang>>
               ELSE /\ isListening' = TRUE
                    /\ outcome' = Retire([outcome EXCEPT ![nextCall] = Pending],
                                          {nextCall})
                    /\ recState' = "starting"
                    /\ recCaller' = nextCall
                    /\ capLang' = recLang
    /\ UNCHANGED <<envVars, uttVars, uiVars, currentLanguage, recLang, recognition, onResultCallback,
                   onErrorCallback, nextUtter>>

\* stopListening(), were it to stop the recognizer whatever the flag says
StopListeningA_Unguarded ==
    /\ impl = "A"
    /\ last' = Op("stopListening", "")
    /\ IF recognition
       THEN /\ recState' = RecAfterStop
            /\ isListening' = FALSE
       ELSE UNCHANGED <<recState, isListening>>
    /\ UNCHANGED <<envVars, uttVars, uiVars, langVars, recognition, isSpeaking, currentUtterance, handlers,
                   onResultCallback, onErrorCallback, recCaller, synVars, callVars,
                   nextUtter>>

\* stopListening()
StopListeningA ==
    /\ impl = "A"
    /\ last' = Op("stopListening", "")
    /\ IF recognition /\ isListening
       THEN /\ recState' = RecAfterStop
            /\ isListening' = FALSE
       ELSE UNCHANGED <<recState, isListening>>
    /\ UNCHANGED <<envVars, uttVars, uiVars, langVars, recognition, isSpeaking, currentUtterance, handlers,
                   onResultCallback, onErrorCallback, recCaller,
                   synVars, callVars, nextUtter>>

\* setLanguage(language), were the new language to reach the capture in flight
SetLanguageA_ReachesCapture ==
    /\ impl = "A"
    /\ \E language \in Languages :
          /\ currentLanguage' = language
          /\ recLang' = (IF recognition THEN language ELSE recLang)
          /\ capLang' = (IF recognition /\ capLang # "" THEN language ELSE capLang)
          /\ last' = Op("setLanguage", language)
    /\ UNCHANGED <<envVars, uttVars, uiVars, svcVars, recVars, synVars, callVars, nextUtter>>

\* setLanguage(language)
SetLanguageA ==
    /\ impl = "A"
    /\ \E language \in Languages :
          /\ currentLanguage' = language
          /\ recLang' = (IF recognition THEN language ELSE recLang)
          /\ last' = Op("setLanguage", language)
    /\ UNCHANGED <<envVars, uttVars, uiVars, svcVars, recVars, capLang, synVars, callVars, nextUtter>>

\* speak(text); the utterance's rate, pitch, volume and lang are not kept
SpeakA ==
    /\ impl = "A"
    /\ nextUtter <= MaxUtter
    /\ nextUtter' = nextUtter + 1
    /\ \E text \in Texts : last' = Op("speak", text)
    \* this.stopSpeaking(); this.currentUtterance = new ...; synthesis.speak(...)
    /\ SetSyn(SynSpeak(StopSpeakingSynA("speak"), nextUtter))
    /\ isSpeaking' = FALSE
    /\ currentUtterance' = nextUtter
    /\ UNCHANGED <<envVars, uttVars, uiVars, langVars, recognition, isListening, handlers, onResultCallback,
                   onErrorCallback, recVars, callVars>>

\* recognition.onresult of the call h
OnResultA(h, t) ==
    /\ isListening' = FALSE
    /\ Settle(h, Ok(t))

\* recognition.onerror of the call h
OnErrorA(h, error) ==
    /\ isListening' = FALSE
    /\ Settle(h, Err(ErrorTextA(error)))

\* onend, were it to leave the flag alone
OnEndA_KeepsFlag ==
    /\ isListening' = isListening
    /\ outcome' = Retire(outcome, {handlers})

\* recognition.onend
OnEndA ==
    /\ isListening' = FALSE
    /\ outcome' = Retire(outcome, {handlers})

\* utterance.onstart
UttOnStartA ==
    /\ isSpeaking' = TRUE
    /\ UNCHANGED currentUtterance

\* utterance.onend and utterance.onerror
UttOnEndA ==
    /\ isSpeaking' = FALSE
    /\ currentUtterance' = 0

----------------------------------------------------------------------------
(* impl B: the callback-based service                                      *)

\* initialize(): VoiceChat calls it when it mounts; modelled while no recognizer
\* has been built yet
InitializeB ==
    /\ impl = "B"
    /\ ~recognition
    /\ recognition' = apiPresent
    \* this.recognition.lang = 'en-US'
    /\ recLang' = (IF apiPresent THEN "en-US" ELSE recLang)
    /\ last' = Op("initialize", "")
    /\ UNCHANGED <<envVars, uttVars, uiVars, currentLanguage, capLang, isListening, isSpeaking, currentUtterance, handlers,
                   onResultCallback, onErrorCallback, recVars, synVars, callVars,
                   nextUtter>>

\* startListening(onResult, onError)
StartListeningB ==
    /\ impl = "B"
    /\ nextCall <= MaxCalls
    /\ nextCall' = nextCall + 1
    /\ last' = Op("startListening", "")
    /\ IF ~recognition
       THEN \* onError('... not supported in this browser'); return
            /\ outcome' = Retire([outcome EXCEPT ![nextCall] = Err(NotSupportedB)],
                                  {nextCall})
            /\ UNCHANGED <<isListening, onResultCallback, onErrorCallback, recVars,
                           capLang>>
       ELSE IF isListening
       THEN \* this.stopListening(); return
            /\ recState' = RecAfterStop
            /\ outcome' = Retire([outcome EXCEPT ![nextCall] = Toggled],
                                  {nextCall, onResultCallback, recCaller})
            /\ UNCHANGED <<isListening, onResultCallback, onErrorCallback,
                           recCaller, capLang>>
       ELSE /\ onResultCallback' = nextCall
            /\ onErrorCallback' = nextCall
            /\ isListening' = isListening
            /\ IF StartThrows
               THEN /\ outcome' = Retire([outcome EXCEPT ![nextCall] = Err(FailedToStart)],
                                          {nextCall, recCaller})
                    /\ UNCHANGED <<recVars, capLang>>
               ELSE /\ outcome' = Retire([outcome EXCEPT ![nextCall] = Pending],
                                          {nextCall})
                    /\ recState' = "starting"
                    /\ recCaller' = nextCall
                    /\ capLang' = recLang
    /\ UNCHANGED <<envVars, uttVars, uiVars, currentLanguage, recLang, recognition, isSpeaking, currentUtterance, handlers,
                   synVars, nextUtter>>

\* stopListening()
StopListeningB ==
    /\ impl = "B"
    /\ last' = Op("stopListening", "")
    /\ IF recognition /\ isListening
       THEN recState' = RecAfterStop
       ELSE UNCHANGED recState
    /\ UNCHANGED <<envVars, uttVars, uiVars, langVars, svcVars, recCaller, synVars, callVars,
                   nextUtter>>

\* speak(text)
SpeakB ==
    /\ impl = "B"
    /\ nextUtter <= MaxUtter
    /\ nextUtter' = nextUtter + 1
    /\ \E text \in Texts : last' = Op("speak", text)
    \* this.synthesis.cancel(); this.synthesis.speak(utterance)
    /\ SetSyn(SynSpeak(SynCancel(SynState, "speak"), nextUtter))
    /\ UNCHANGED <<envVars, uttVars, uiVars, langVars, svcVars, recVars, callVars>>

\* stopSpeaking()
StopSpeakingB ==
    /\ impl = "B"
    /\ last' = Op("stopSpeaking", "")
    /\ SetSyn(SynCancel(SynState, "stopSpeaking"))
    /\ UNCHANGED <<envVars, uttVars, uiVars, langVars, svcVars, recVars, callVars, nextUtter>>

\* recognition.onstart
OnStartB == isListening' = TRUE

\* recognition.onresult
OnResultB(t) ==
    /\ isListening' = isListening
    /\ IF onResultCallback # 0
       THEN CallBack(onResultCallback, Ok(t))
       ELSE UNCHANGED outcome

\* recognition.onerror
OnErrorB(error) ==
    /\ isListening' = FALSE
    /\ IF onErrorCallback # 0
       THEN CallBack(onErrorCallback, Err(getErrorMessage(error)))
       ELSE UNCHANGED outcome

\* recognition.onend
OnEndB ==
    /\ isListening' = FALSE
    /\ outcome' = Retire(outcome, {onResultCallback, onErrorCallback})

----------------------------------------------------------------------------
(* Events of the browser                                                   *)

\* SpeechRecognition fires start: the capture has begun.
RecStart ==
    /\ recState = "starting"
    /\ recState' = "active"
    /\ last' = Op("onstart", "")
    /\ IF impl = "A" THEN UNCHANGED isListening ELSE OnStartB
    /\ UNCHANGED <<envVars, uttVars, uiVars, langVars, recognition, isSpeaking, currentUtterance, handlers,
                   onResultCallback, onErrorCallback, recCaller,
                   synVars, callVars, nextUtter>>

\* SpeechRecognition fires result with a transcript, also for a capture that
\* stop() has ended, and any number of times within one capture.
RecResult ==
    /\ recState \in {"active", "stopping"}
    /\ \E t \in Transcripts :
          /\ last' = Op("onresult", t)
          /\ IF impl = "A" THEN OnResultA(handlers, t) ELSE OnResultB(t)
    /\ UNCHANGED <<envVars, uttVars, uiVars, langVars, recognition, isSpeaking, currentUtterance, handlers,
                   onResultCallback, onErrorCallback, recState, recCaller,
                   synVars, nextCall, nextUtter>>

\* SpeechRecognition fires error; only end follows it.
RecError ==
    /\ recState \in {"starting", "active", "stopping", "aborted"}
    /\ recState' = "closing"
    /\ \E e \in ErrorCodes :
          /\ last' = Op("onerror", e)
          /\ IF impl = "A" THEN OnErrorA(handlers, e) ELSE OnErrorB(e)
    /\ UNCHANGED <<envVars, uttVars, uiVars, langVars, recognition, isSpeaking, currentUtterance, handlers,
                   onResultCallback, onErrorCallback, recCaller,
                   synVars, nextCall, nextUtter>>

\* The end event, were onend to call recognition.start() again for the same
\* caller
RecEnd_Restarts ==
    /\ recState # "idle"
    /\ recState' = "starting"
    /\ capLang' = recLang
    /\ last' = Op("onend", "")
    /\ IF impl = "A" THEN OnEndA ELSE OnEndB
    /\ UNCHANGED <<envVars, uttVars, uiVars, currentLanguage, recLang, recognition, isSpeaking,
                   currentUtterance, handlers, onResultCallback, onErrorCallback,
                   recCaller, synVars, nextCall, nextUtter>>

\* SpeechRecognition fires end: the recognizer can be started again.
RecEnd ==
    /\ recState # "idle"
    /\ recState' = "idle"
    /\ recCaller' = 0
    /\ capLang' = ""
    /\ last' = Op("onend", "")
    /\ IF impl = "A" THEN OnEndA ELSE OnEndB
    /\ UNCHANGED <<envVars, uttVars, uiVars, currentLanguage, recLang, recognition, isSpeaking, currentUtterance, handlers,
                   onResultCallback, onErrorCallback, synVars, nextCall, nextUtter>>

\* The head of the queue begins to play; its start event fires.
SynStart ==
    /\ synQueue # <<>>
    /\ ~synStarted
    /\ synStarted' = TRUE
    /\ last' = Op("utt-start", "")
    /\ IF impl = "A" THEN UttOnStartA ELSE UNCHANGED <<isSpeaking, currentUtterance>>
    /\ UNCHANGED <<envVars, uttVars, uiVars, langVars, recognition, isListening, handlers, onResultCallback,
                   onErrorCallback, recVars, synQueue, synStale, callVars, nextUtter>>

\* The head of the queue finishes (end) or fails (error); the next one is up.
SynEnd ==
    /\ synQueue # <<>>
    /\ synQueue' = Tail(synQueue)
    /\ synStarted' = FALSE
    /\ \E ev \in (IF synStarted THEN {"utt-end", "utt-error"} ELSE {"utt-error"}) :
          last' = Op(ev, "")
    /\ IF impl = "A" THEN UttOnEndA ELSE UNCHANGED <<isSpeaking, currentUtterance>>
    /\ UNCHANGED <<envVars, uttVars, uiVars, langVars, recognition, isListening, handlers, onResultCallback,
                   onErrorCallback, recVars, synStale, callVars, nextUtter>>

\* The final event (error 'interrupted'/'canceled', or end) of an utterance that
\* synthesis.cancel() removed arrives.
SynStaleEvent ==
    /\ \E x \in synStale :
          /\ synStale' = synStale \ {x}
          /\ last' = Op("utt-stale", x.by)
    /\ IF impl = "A" THEN UttOnEndA ELSE UNCHANGED <<isSpeaking, currentUtterance>>
    /\ UNCHANGED <<envVars, uttVars, uiVars, langVars, recognition, isListening, handlers, onResultCallback,
                   onErrorCallback, recVars, synQueue, synStarted, callVars, nextUtter>>

----------------------------------------------------------------------------
Next ==
    \/ StartListeningA
    \/ StopListeningA
    \/ SpeakA
    \/ StopSpeakingA
    \/ InitializeB
    \/ StartListeningB
    \/ StopListeningB
    \/ SpeakB
    \/ StopSpeakingB
    \/ RecStart
    \/ RecResult
    \/ RecError
    \/ RecEnd
    \/ SynStart
    \/ SynEnd
    \/ SynStaleEvent

Spec == Init /\ [][Next]_vars

\* The platform delivers the events of a capture it has begun and of an
\* utterance it has begun to play.
LiveSpec ==
    /\ Spec
    /\ WF_vars(RecEnd)
    /\ WF_vars(SynEnd)

----------------------------------------------------------------------------
(* The callback-based service with speak options (unnamed/part_002, lines  *)
(* 137-272): speechService.ts with speak(text, options).  Rates, pitches   *)
(* and volumes are in tenths; an option is <<>> when the caller left it    *)
(* out and <<v>> when it is the number v.                                  *)

\* options.rate, options.pitch: left out, zero, below the slider's range, its
\* bounds, a value inside, a value above
RateOptions == {<<>>, <<0>>, <<3>>, <<5>>, <<9>>, <<20>>, <<25>>}
\* options.volume: left out, negative, muted, inside, full, above
VolumeOptions == {<<>>, <<-5>>, <<0>>, <<5>>, <<10>>, <<15>>}

\* options.x || d: d when x is undefined or 0, else x
OrDefault(x, d) == IF x = <<>> THEN d ELSE IF x[1] = 0 THEN d ELSE x[1]

\* speak(text, options)
SpeakOptions ==
    /\ impl = "B"
    /\ nextUtter <= MaxUtter
    /\ nextUtter' = nextUtter + 1
    /\ \E text \in Texts, rate \in RateOptions, pitch \in RateOptions,
          volume \in VolumeOptions :
          /\ last' = Op("speak", text)
          \* utterance.rate = options.rate || 0.9; pitch || 1; volume || 1
          /\ uttParams' = [asked  |-> <<rate, pitch, volume>>,
                           handed |-> <<OrDefault(rate, 9), OrDefault(pitch, 10),
                                        OrDefault(volume, 10)>>]
    \* this.synthesis.cancel(); this.synthesis.speak(utterance)
    /\ SetSyn(SynSpeak(SynCancel(SynState, "speak"), nextUtter))
    /\ UNCHANGED <<envVars, uttText, uiVars, langVars, svcVars, recVars, callVars>>

ParamInit ==
    /\ Init
    /\ impl = "B"

ParamNext ==
    \/ SpeakOptions
    \/ StopSpeakingB
    \/ SynStart
    \/ SynEnd
    \/ SynStaleEvent

ParamSpec == ParamInit /\ [][ParamNext]_vars

----------------------------------------------------------------------------
(* The support query, on hosts with and without the two capabilities.      *)

\* A: this.recognition !== null && 'speechSynthesis' in window
\* B: !!(this.recognition && this.synthesis)
isSupported == recognition /\ synthesisPresent

\* isSupported(), were it to look at the synthesis capability only
IsSupported_SynthesisOnly ==
    /\ last' = Op("isSupported", IF synthesisPresent THEN "true" ELSE "false")
    /\ UNCHANGED <<envVars, svcVars, recVars, langVars, synVars, callVars, nextUtter,
                   uttVars, uiVars>>

\* isSupported()
IsSupported ==
    /\ last' = Op("isSupported", IF isSupported THEN "true" ELSE "false")
    /\ UNCHANGED <<envVars, svcVars, recVars, langVars, synVars, callVars, nextUtter,
                   uttVars, uiVars>>

\* A's startListening() on a host without speechSynthesis: this.synthesis is
\* undefined, so this.stopSpeaking() throws a TypeError inside the promise's
\* executor and the promise is rejected with it before anything is assigned.
StartListeningNoSynthesisA ==
    /\ impl = "A"
    /\ ~synthesisPresent
    /\ nextCall <= MaxCalls
    /\ nextCall' = nextCall + 1
    /\ last' = Op("startListening", "")
    /\ outcome' = Retire([outcome EXCEPT ![nextCall] =
                             Err(IF ~recognition THEN NotSupportedA ELSE "TypeError")],
                         {nextCall})
    /\ UNCHANGED <<envVars, uttVars, uiVars, langVars, svcVars, recVars, synVars,
                   nextUtter>>

\* A's startListening() on a host with speechSynthesis
StartListeningWithSynthesisA ==
    /\ synthesisPresent
    /\ StartListeningA

SupportInit ==
    /\ ServiceInit
    /\ synthesisPresent \in BOOLEAN
    /\ hasSession = TRUE
    /\ UttInit
    /\ UiInit
    /\ messageText = [m \in MsgIds |-> <<>>]

SupportNext ==
    \/ IsSupported
    \/ StartListeningWithSynthesisA
    \/ StartListeningNoSynthesisA
    \/ StopListeningA
    \/ InitializeB
    \/ StartListeningB
    \/ StopListeningB
    \/ RecStart
    \/ RecResult
    \/ RecError
    \/ RecEnd

SupportSpec == SupportInit /\ [][SupportNext]_vars

----------------------------------------------------------------------------
(* The App component (App.tsx) on top of service A: speaking a message.    *)
(* A text is the sequence of its characters.                               *)

\* Contents of chat messages: without the product name, the name alone, the name
\* in lower case inside a sentence, and the name followed by a letter.
SpokenTexts ==
    { <<"h", "i">>,
      <<"X", "L", "Y", "G", "E", "R", " ", "A", "I">>,
      <<"a", " ", "x", "l", "y", "g", "e", "r", " ", "a", "i", "!">>,
      <<"X", "L", "Y", "G", "E", "R", " ", "A", "I", "R">> }

\* /XLYGER AI/gi
Pattern == <<"X", "L", "Y", "G", "E", "R", " ", "A", "I">>
\* 'SLIGER AI'
Replacement == <<"S", "L", "I", "G", "E", "R", " ", "A", "I">>

\* the i flag: letters are compared without their case
Upper(c) ==
    CASE c = "x" -> "X" [] c = "l" -> "L" [] c = "y" -> "Y" [] c = "g" -> "G"
      [] c = "e" -> "E" [] c = "r" -> "R" [] c = "a" -> "A" [] c = "i" -> "I"
      [] OTHER -> c

\* the pattern matches the text at position i
MatchesAt(text, i) ==
    /\ i + Len(Pattern) - 1 <= Len(text)
    /\ \A k \in 1..Len(Pattern) : Upper(text[i + k - 1]) = Pattern[k]

\* the g flag: every match, left to right, none overlapping the one before
RECURSIVE ReplaceFrom(_, _)
ReplaceFrom(text, i) ==
    IF i > Len(text) THEN <<>>
    ELSE IF MatchesAt(text, i)
         THEN Replacement \o ReplaceFrom(text, i + Len(Pattern))
         ELSE <<text[i]>> \o ReplaceFrom(text, i + 1)

\* text.replace(/XLYGER AI/gi, 'SLIGER AI'): a new string, text is not changed
correctedText(text) == ReplaceFrom(text, 1)

\* handleSpeakMessage(messageId, content), were it to keep the corrected text
\* as the message's content
HandleSpeakMessage_KeepsCorrected(m) ==
    /\ impl = "A"
    /\ speakingMessageId # m
    /\ nextUtter <= MaxUtter
    /\ nextUtter' = nextUtter + 1
    /\ SetSyn(SynSpeak(StopSpeakingSynA(IF isSpeaking THEN "stopSpeaking" ELSE "speak"),
                       nextUtter))
    /\ isSpeaking' = FALSE
    /\ currentUtterance' = nextUtter
    /\ uttText' = [from |-> messageText[m], handed |-> correctedText(messageText[m])]
    /\ messageText' = [messageText EXCEPT ![m] = correctedText(@)]
    /\ speakingMessageId' = m
    /\ timers' = timers \cup {nextUtter}
    /\ last' = Op("handleSpeakMessage", m)
    /\ UNCHANGED <<envVars, uttParams, uiListening, isLoading, awaited, saving,
                   requests, langVars, recognition, isListening, handlers, onResultCallback,
                   onErrorCallback, recVars, callVars>>

\* handleSpeakMessage(messageId, content) with the content of the message
HandleSpeakMessage(m) ==
    /\ impl = "A"
    /\ last' = Op("handleSpeakMessage", m)
    /\ IF speakingMessageId = m
       THEN \* speechService.stopSpeaking(); setSpeakingMessageId(null)
            /\ SetSyn(StopSpeakingSynA("stopSpeaking"))
            /\ isSpeaking' = FALSE
            /\ currentUtterance' = 0
            /\ speakingMessageId' = ""
            /\ UNCHANGED <<nextUtter, uttText, timers>>
       ELSE \* if (getIsSpeaking()) stopSpeaking(); setSpeakingMessageId(messageId);
            \* speechService.speak(content); setTimeout(..., estimatedDuration)
            /\ nextUtter <= MaxUtter
            /\ nextUtter' = nextUtter + 1
            /\ SetSyn(SynSpeak(StopSpeakingSynA(IF isSpeaking THEN "stopSpeaking"
                                                             ELSE "speak"),
                               nextUtter))
            /\ isSpeaking' = FALSE
            /\ currentUtterance' = nextUtter
            /\ uttText' = [from   |-> messageText[m],
                           handed |-> correctedText(messageText[m])]
            /\ speakingMessageId' = m
            /\ timers' = timers \cup {nextUtter}
    /\ UNCHANGED <<envVars, uttParams, messageText, uiListening, isLoading, awaited,
                   saving, requests, langVars, recognition, isListening, handlers,
                   onResultCallback, onErrorCallback, recVars, callVars>>

\* The estimated-duration timer armed for utterance u expires:
\* setSpeakingMessageId(null)
TimerFires ==
    /\ \E u \in timers :
          /\ timers' = timers \ {u}
          /\ last' = Op("timer", "")
    /\ speakingMessageId' = ""
    /\ UNCHANGED <<envVars, uttVars, messageText, uiListening, isLoading, awaited,
                   saving, requests, langVars, svcVars, recVars, synVars, callVars, nextUtter>>

\* Speaking messages whose content may hold the product name.
TextInit ==
    /\ ServiceInit
    /\ impl = "A"
    /\ synthesisPresent = TRUE
    /\ hasSession = TRUE
    /\ UttInit
    /\ UiInit
    /\ messageText \in [MsgIds -> SpokenTexts]

TextNext ==
    \/ \E m \in MsgIds : HandleSpeakMessage(m)
    \/ TimerFires
    \/ SynStart
    \/ SynEnd
    \/ SynStaleEvent

TextSpec == TextInit /\ [][TextNext]_vars

----------------------------------------------------------------------------
(* The App component: the voice flow and sending a message.                *)

\* content.trim() of the texts and transcripts that occur
trim(content) == IF content = " " THEN "" ELSE content

\* A message on its way to the backend: generateResponse(content, history,
\* isVoiceMessage)
Message(content, isVoiceMessage) == [content |-> content, voice |-> isVoiceMessage]

\* The promise a handleVoiceToggle awaits has settled: its continuation is a
\* microtask and runs before any other event is handled.
ContinuationReady == \E c \in awaited : outcome[c].st \in {"ok", "err"}

\* handleSendMessage(content, isVoiceMessage) past its blank check, run by a
\* function that saw listeningSeen as the component's isListening: the service's
\* fields, the recognizer, the synthesis queue, isLoading and the message.
SendMessage(content, isVoiceMessage, listeningSeen) ==
    \* if (speechService.getIsSpeaking()) speechService.stopSpeaking()
    /\ SetSyn(IF isSpeaking THEN StopSpeakingSynA("stopSpeaking") ELSE SynState)
    /\ isSpeaking' = FALSE
    /\ currentUtterance' = (IF isSpeaking THEN 0 ELSE currentUtterance)
    \* if (isListening) { speechService.stopListening(); ... }
    /\ IF listeningSeen /\ recognition /\ isListening
       THEN /\ recState' = RecAfterStop
            /\ isListening' = FALSE
       ELSE UNCHANGED <<recState, isListening>>
    /\ isLoading' = TRUE
    \* if (currentSessionId) await saveMessage(...); then generateResponse(...)
    /\ IF hasSession
       THEN /\ saving' = saving \cup {Message(content, isVoiceMessage)}
            /\ UNCHANGED requests
       ELSE /\ requests' = requests \cup {Message(content, isVoiceMessage)}
            /\ UNCHANGED saving

\* handleVoiceToggle(): the voice button, which the voice page never disables
HandleVoiceToggle ==
    /\ impl = "A"
    /\ IF uiListening
       THEN \* speechService.stopListening(); setIsListening(false)
            /\ last' = Op("handleVoiceToggle", "stop")
            /\ IF recognition /\ isListening
               THEN /\ recState' = RecAfterStop
                    /\ isListening' = FALSE
               ELSE UNCHANGED <<recState, isListening>>
            /\ uiListening' = FALSE
            /\ UNCHANGED <<isSpeaking, currentUtterance, handlers, recCaller, recLang,
                           capLang, synVars, callVars, awaited>>
       ELSE \* if (getIsSpeaking()) stopSpeaking(); setLanguage(currentLanguage);
            \* setIsListening(true); await speechService.startListening()
            /\ nextCall <= MaxCalls
            /\ nextCall' = nextCall + 1
            /\ last' = Op("handleVoiceToggle", "start")
            /\ recLang' = (IF recognition THEN currentLanguage ELSE recLang)
            /\ uiListening' = TRUE
            /\ awaited' = awaited \cup {nextCall}
            /\ IF ~recognition
               THEN /\ SetSyn(IF isSpeaking THEN StopSpeakingSynA("stopSpeaking")
                                            ELSE SynState)
                    /\ isSpeaking' = FALSE
                    /\ currentUtterance' = (IF isSpeaking THEN 0 ELSE currentUtterance)
                    /\ outcome' = Retire([outcome EXCEPT ![nextCall] = Err(NotSupportedA)],
                                         {nextCall} \cup awaited)
                    /\ UNCHANGED <<isListening, handlers, recVars, capLang>>
               ELSE /\ SetSyn(StopSpeakingSynA(IF isSpeaking THEN "stopSpeaking"
                                                             ELSE "startListening"))
                    /\ isSpeaking' = FALSE
                    /\ currentUtterance' = 0
                    /\ handlers' = nextCall
                    /\ IF StartThrows
                       THEN /\ isListening' = FALSE
                            /\ outcome' = Retire([outcome EXCEPT
                                                    ![nextCall] = Err(FailedToStart)],
                                                 {nextCall, recCaller} \cup awaited)
                            /\ UNCHANGED <<recVars, capLang>>
                       ELSE /\ isListening' = TRUE
                            /\ outcome' = Retire([outcome EXCEPT ![nextCall] = Pending],
                                                 {nextCall} \cup awaited)
                            /\ recState' = "starting"
                            /\ recCaller' = nextCall
                            /\ capLang' = recLang'
    /\ UNCHANGED <<envVars, uttVars, messageText, speakingMessageId, isLoading, timers,
                   saving, requests, currentLanguage, recognition, onResultCallback,
                   onErrorCallback, nextUtter>>

\* handleVoiceToggle() resumes after its await: with the transcript, or in its
\* catch block. The handleSendMessage it calls is the one of the render in which
\* the button was pressed, where isListening was false.
VoiceContinuation ==
    /\ impl = "A"
    /\ \E c \in awaited :
          /\ outcome[c].st \in {"ok", "err"}
          /\ awaited' = awaited \ {c}
          /\ uiListening' = FALSE
          /\ IF outcome[c].st = "ok"
             THEN /\ last' = Op("voiceTranscript", outcome[c].val)
                  /\ IF outcome[c].val # "" /\ trim(outcome[c].val) # ""
                     THEN SendMessage(outcome[c].val, TRUE, FALSE)
                     ELSE UNCHANGED <<synVars, isSpeaking, currentUtterance, recState,
                                      isListening, isLoading, saving, requests>>
             ELSE \* console.error(...); setIsListening(false)
                  /\ last' = Op("voiceError", outcome[c].val)
                  /\ UNCHANGED <<synVars, isSpeaking, currentUtterance, recState,
                                 isListening, isLoading, saving, requests>>
    /\ UNCHANGED <<envVars, uttVars, messageText, speakingMessageId, timers, langVars,
                   recognition, handlers, onResultCallback, onErrorCallback, recCaller,
                   callVars, nextUtter>>

\* handleSendMessage(inputValue) from the Enter key or the send button, both
\* disabled while isLoading
HandleSendMessage ==
    /\ impl = "A"
    /\ ~isLoading
    /\ \E content \in Texts :
          /\ last' = Op("handleSendMessage", content)
          /\ IF trim(content) = ""
             THEN \* if (!content.trim()) return
                  UNCHANGED <<synVars, isSpeaking, currentUtterance, recState,
                              isListening, isLoading, saving, requests, uiListening>>
             ELSE /\ SendMessage(content, FALSE, uiListening)
                  /\ uiListening' = FALSE
    /\ UNCHANGED <<envVars, uttVars, messageText, speakingMessageId, timers, awaited,
                   langVars, recognition, handlers, onResultCallback, onErrorCallback,
                   recCaller, callVars, nextUtter>>

\* await supabaseService.saveMessage(...) returns and handleSendMessage goes on
\* to geminiService.generateResponse(content, conversationHistory, isVoiceMessage)
GenerateResponse ==
    /\ \E m \in saving :
          /\ saving' = saving \ {m}
          /\ requests' = requests \cup {m}
          /\ last' = Op("generateResponse", m.content)
    /\ UNCHANGED <<envVars, uttVars, messageText, uiListening, speakingMessageId,
                   isLoading, timers, awaited, langVars, svcVars, recVars, synVars,
                   callVars, nextUtter>>

\* generateResponse answers or fails: the reply is shown and, in the finally
\* block, setIsLoading(false)
ResponseArrives ==
    /\ \E m \in requests :
          /\ requests' = requests \ {m}
          /\ last' = Op("response", m.content)
    /\ isLoading' = FALSE
    /\ UNCHANGED <<envVars, uttVars, messageText, uiListening, speakingMessageId,
                   timers, awaited, saving, langVars, svcVars, recVars, synVars,
                   callVars, nextUtter>>

\* The App component over service A, with or without a chat session.
AppInit ==
    /\ ServiceInit
    /\ impl = "A"
    /\ synthesisPresent = TRUE
    /\ hasSession \in BOOLEAN
    /\ UttInit
    /\ UiInit
    /\ messageText = [m \in MsgIds |-> <<"h", "i">>]

\* The continuation first; then the events of the user and of the browser. The
\* estimated-duration timers are left to TextSpec: here none expires.
AppNext ==
    \/ VoiceContinuation
    \/ ~ContinuationReady /\ HandleVoiceToggle
    \/ ~ContinuationReady /\ HandleSendMessage
    \/ ~ContinuationReady /\ GenerateResponse
    \/ ~ContinuationReady /\ ResponseArrives
    \/ ~ContinuationReady /\ \E m \in MsgIds : HandleSpeakMessage(m)
    \/ ~ContinuationReady /\ RecStart
    \/ ~ContinuationReady /\ RecResult
    \/ ~ContinuationReady /\ RecError
    \/ ~ContinuationReady /\ RecEnd
    \/ ~ContinuationReady /\ SynStart
    \/ ~ContinuationReady /\ SynEnd
    \/ ~ContinuationReady /\ SynStaleEvent

AppSpec == AppInit /\ [][AppNext]_vars

----------------------------------------------------------------------------
\* Service A with its language setter.  setLanguage writes currentLanguage and
\* recognition.lang only, and nothing but start() reads recognition.lang, so the
\* mode machine above is checked with the language left at its default and the
\* language is checked here.
LangInit ==
    /\ Init
    /\ impl = "A"

LangNext ==
    \/ SetLanguageA
    \/ StartListeningA
    \/ StopListeningA
    \/ SpeakA
    \/ StopSpeakingA
    \/ RecStart
    \/ RecResult
    \/ RecError
    \/ RecEnd
    \/ SynStart
    \/ SynEnd
    \/ SynStaleEvent

LangSpec == LangInit /\ [][LangNext]_vars

----------------------------------------------------------------------------
(* Mode, as the coordinator reports it                                     *)

Listening == isListening
\* B keeps no speaking flag: it speaks while the platform plays its utterance.
Speaking  == IF impl = "A" THEN isSpeaking ELSE synStarted
Idle      == ~Listening /\ ~Speaking

\* The coordinator's own fields.
coordVars == <<isListening, isSpeaking, currentUtterance, handlers,
               onResultCallback, onErrorCallback>>
\* Everything but the record of the last operation.
stateVars == <<envVars, svcVars, recVars, langVars, synVars, callVars, nextUtter>>

\* The capture in flight has been cancelled by stop().
CaptureCancelled == recState \in {"stopping", "aborted"}
\* A speak request exists: an utterance is queued or playing at the platform.
SpeakRequest == synQueue # <<>>
\* A capture is in flight that nothing has ended yet.
CaptureLive == recState \in {"starting", "active"}

\* The message the service hands its caller for a platform error code.
MappedError(e) == IF impl = "A" THEN ErrorTextA(e) ELSE getErrorMessage(e)

----------------------------------------------------------------------------
(* C1 - C10                                                                *)

\* C1: the coordinator is never listening and speaking at the same time.
C1_NeverListeningAndSpeaking ==
    ~(Listening /\ Speaking)

\* C2: speak called while Listening is rejected: nothing is submitted to the
\* synthesis platform and Mode stays Listening.
C2_SpeakRejectedWhileListening ==
    [][(last'.op = "speak" /\ Listening)
          => (synQueue' = synQueue /\ Listening')]_vars

\* C3: startListening called while Speaking (service A) cancels the playback
\* before the capture is started, and the events of the playback it cancelled
\* change nothing in the coordinator afterwards.
C3_PreemptedPlaybackStaysSilent ==
    [][/\ (last'.op = "startListening" /\ impl = "A" /\ recognition /\ Speaking)
             => (synQueue' = <<>> /\ ~Speaking')
       /\ (last'.op = "utt-stale" /\ last'.val = "startListening")
             => UNCHANGED coordVars]_vars

\* C4: startListening called while a capture is in flight behaves as
\* stopListening: the capture is stopped, no other one is started, the coordinator
\* is not listening afterwards, the newer call is not left waiting for a
\* transcript, and a transcript only ever goes to the call that began the capture.
C4_ToggleStop ==
    [][/\ (last'.op = "startListening" /\ recognition /\ CaptureLive)
             => /\ CaptureCancelled'
                /\ recCaller' = recCaller
                /\ ~Listening'
                /\ outcome'[nextCall].st \notin {"pending", "ok"}
       /\ (last'.op = "onresult")
             => \A c \in Calls : outcome'[c] # outcome[c] => c = recCaller]_vars

\* C5: an event of a capture that stopListening has cancelled, or of an utterance
\* that has been cancelled, changes no coordinator state and reaches no caller.
C5_StaleEventsIgnored ==
    [][(\/ last'.op = "utt-stale"
        \/ (last'.op \in {"onresult", "onerror", "onend"} /\ CaptureCancelled))
          => UNCHANGED <<coordVars, outcome>>]_vars

\* C6: whenever the coordinator is listening or speaking it eventually is Idle
\* again, provided the platform delivers the end event of what it has begun.
C6_EventuallyIdle ==
    (Listening \/ Speaking) ~> Idle

\* C6, witness: the coordinator is Idle again after a capture that ended.
C6_Witness ==
    /\ last.op = "onend"
    /\ Idle

\* C7: stopListening while Listening cancels the capture, fails the waiting
\* caller at once, and leaves the coordinator not listening.
C7_StopListeningFailsCaller ==
    [][(/\ last'.op = "stopListening"
        /\ Listening
        /\ CaptureLive
        /\ outcome[recCaller].st = "pending")
          => /\ CaptureCancelled'
             /\ outcome'[recCaller].st = "err"
             /\ ~Listening']_vars

C9_TranscriptResolvesCaller ==
    [][(/\ last'.op = "onresult"
        /\ recState = "active"
        /\ outcome[recCaller].st = "pending")
          => /\ outcome'[recCaller] = Ok(last'.val)
             /\ ~Listening']_vars

\* C10: an error reported for the capture in flight fails the caller that began
\* it with the message of that error code, and the coordinator is not listening
\* afterwards.
C10_ErrorFailsCaller ==
    [][(/\ last'.op = "onerror"
        /\ CaptureLive
        /\ outcome[recCaller].st = "pending")
          => /\ outcome'[recCaller] = Err(MappedError(last'.val))
             /\ ~Listening']_vars

----------------------------------------------------------------------------
(* C11 - C20                                                               *)

\* C11: speak called while an earlier utterance is playing cancels that utterance
\* and makes the new one the coordinator's current utterance, and the final event
\* of the utterance it cancelled neither clears the speaking state nor the
\* current utterance.
C11_SpeakReplacesPlayback ==
    [][/\ (last'.op = "speak" /\ Speaking)
             => /\ synQueue' = <<nextUtter>>
                /\ (impl = "A" => currentUtterance' = nextUtter)
       /\ (last'.op = "utt-stale" /\ last'.val = "speak")
             => /\ (Speaking => Speaking')
                /\ currentUtterance' = currentUtterance]_vars

\* The message startListening fails with when there is no recognizer.
NotSupported == IF impl = "A" THEN NotSupportedA ELSE NotSupportedB

\* C12: startListening with no recognizer fails its caller within the call with
\* the 'not supported' message and changes nothing else: no capture is started,
\* the coordinator's fields, the recognizer and the synthesis queue with any
\* playback in flight stay as they were, and no other caller receives anything.
C12_UnsupportedFailsAtOnce ==
    [][(last'.op = "startListening" /\ ~recognition)
          => /\ outcome'[nextCall] = Err(NotSupported)
             /\ UNCHANGED <<svcVars, recVars, langVars, synVars>>
             /\ \A c \in Calls \ {nextCall} :
                   outcome'[c] \in {outcome[c], Retired}]_vars

\* C12, witness: startListening has just failed for want of a recognizer while
\* an utterance was in flight, and the utterance is still there.
C12_Witness ==
    /\ last.op = "startListening"
    /\ ~recognition
    /\ nextCall > 1
    /\ outcome[nextCall - 1] = Err(NotSupported)
    /\ SpeakRequest

\* C13: once the platform has ended a capture, the caller whose startListening
\* began it is not left waiting: it has received a transcript or an error, the
\* end event itself failing it when neither came before.
C13_CaptureEndAnswersCaller ==
    [][(last'.op = "onend" /\ recCaller # 0)
          => outcome'[recCaller].st # "pending"]_vars

\* C14: a call that has received a transcript or an error receives nothing
\* after it, whatever further events the platform delivers for the capture.
C14_AnsweredAtMostOnce ==
    [][\A c \in Calls :
          outcome[c].st \in {"ok", "err"}
             => outcome'[c] \in {outcome[c], Retired}]_vars

\* The texts of Texts that are empty or hold nothing but whitespace.
BlankTexts == {"", " "}

\* C15: speak with an empty or whitespace-only text does nothing: no utterance is
\* submitted, no utterance in flight is cancelled, and the coordinator's fields
\* stay as they were.
C15_BlankSpeakIsNoOp ==
    [][(last'.op = "speak" /\ last'.val \in BlankTexts)
          => UNCHANGED <<svcVars, synVars>>]_vars

\* C16: the language set by setLanguage is kept until the next setLanguage,
\* whatever else happens; setLanguage leaves the capture in flight and the
\* language it was started with alone; only the end of the capture or the start
\* of another one changes the language of the capture; and a capture that
\* startListening starts uses the language set last.
C16_LanguageAppliesToNextCapture ==
    [][/\ (last'.op = "setLanguage")
             => /\ currentLanguage' = last'.val
                /\ UNCHANGED <<recVars, capLang>>
       /\ (last'.op # "setLanguage") => currentLanguage' = currentLanguage
       /\ (last'.op \notin {"startListening", "onend"}) => capLang' = capLang
       /\ (last'.op = "startListening" /\ recCaller' # recCaller)
             => capLang' = currentLanguage]_vars

\* C16, witness: the second capture was started after the language had been set
\* to sw-KE and runs in sw-KE, and the language has been set back to en-US while
\* it is in flight.
C16_Witness ==
    /\ last = Op("setLanguage", "en-US")
    /\ CaptureLive
    /\ recCaller = 2
    /\ capLang = "sw-KE"
    /\ currentLanguage = "en-US"

\* The operation or event handled last was a failure: a platform error of the
\* capture or of the utterance, a capture cancelled by stopListening, or a
\* startListening that failed its caller (no recognizer, or start() threw).
JustFailed ==
    \/ last.op \in {"onerror", "utt-error"}
    \/ (last.op = "stopListening" /\ CaptureCancelled)
    \/ (last.op = "startListening" /\ nextCall > 1
           /\ outcome[nextCall - 1].st = "err")

\* C17: a startListening call that follows a failure, made while the coordinator
\* reports that it is not listening and has a recognizer, starts a capture of
\* its own and is left waiting for its outcome; a speak call that follows a
\* failure submits its utterance.
C17_UsableAfterFailure ==
    [][/\ (JustFailed /\ ~Listening /\ recognition /\ last'.op = "startListening")
             => /\ recCaller' = nextCall
                /\ outcome'[nextCall] = Pending
       /\ (JustFailed /\ ~Listening /\ last'.op = "speak")
             => nextUtter \in SetOf(synQueue')]_vars

\* C18: stopSpeaking called while a speak request exists, begun or not, removes
\* it from the platform's queue and leaves the coordinator not speaking, and the
\* final event of a request it cancelled changes nothing in the coordinator.
C18_StopSpeakingCancels ==
    [][/\ (last'.op = "stopSpeaking" /\ SpeakRequest)
             => /\ synQueue' = <<>>
                /\ ~Speaking'
       /\ (last'.op = "utt-stale" /\ last'.val = "stopSpeaking")
             => UNCHANGED coordVars]_vars

\* C19: a capture is started by a startListening call only, for that call, and an
\* utterance is submitted by a speak call only: no event of the platform (start,
\* result, error, end, or the final event of a cancelled utterance) and no stop
\* method starts a capture or submits an utterance.
C19_NoRetry ==
    [][/\ (recState' = "starting" /\ recState # "starting")
             => /\ last'.op = "startListening"
                /\ recCaller' = nextCall
       /\ (recCaller' # recCaller /\ recCaller' # 0)
             => last'.op = "startListening"
       /\ (SetOf(synQueue') \ SetOf(synQueue) # {})
             => /\ last'.op = "speak"
                /\ SetOf(synQueue') \ SetOf(synQueue) = {nextUtter}]_vars

\* C19, witness: the capture of the first call has failed with a platform error,
\* its caller has the error, and the recognizer is closing with no other capture
\* started, although further calls could still be made.
C19_Witness ==
    /\ last.op = "onerror"
    /\ recState = "closing"
    /\ recCaller = 1
    /\ outcome[1].st = "err"
    /\ nextCall = 2

\* The error kind of a platform code: the four codes with a kind of their own,
\* and unknown for every other code.
ErrorKind(e) ==
    IF e \in {"no-speech", "audio-capture", "not-allowed", "network"}
    THEN e ELSE "unknown"

\* C20: the message a caller receives for an error event depends on the kind of
\* the event's code and on nothing else, and differs from kind to kind: a code
\* yields that message exactly if it is of the same kind, so every code without a
\* kind of its own yields the one message of the unknown kind.
C20_MessageByKind ==
    [][last'.op = "onerror"
          => \A c \in Calls :
                (outcome'[c] # outcome[c] /\ outcome'[c].st = "err")
                   => \A e \in ErrorCodes :
                         (ErrorKind(e) = ErrorKind(last'.val))
                            <=> (MappedError(e) = outcome'[c].val)]_vars

----------------------------------------------------------------------------
(* C21 - C30                                                               *)

\* C25: getIsSpeaking() is true only while the coordinator holds a current
\* utterance, and once stopSpeaking has returned it stays false, and nothing it
\* left behind is played by the platform, until speak is called again.
C25_SilentAfterStopSpeaking ==
    /\ (impl = "A" /\ isSpeaking) => currentUtterance # 0
    /\ (impl = "A" /\ last.op = "stopSpeaking") => (~isSpeaking /\ synQueue = <<>>)

\* C26: at most one utterance is queued or playing at the synthesis platform.
C26_OneUtteranceAtThePlatform ==
    Len(synQueue) <= 1

\* C27: startListening never calls recognition.start() on a recognizer whose
\* earlier capture has not ended, so start() never throws.
C27_NoStartDuringCapture ==
    [][last'.op = "startListening"
          => outcome'[nextCall] # Err(FailedToStart)]_vars

\* A value brought into the range lo..hi.
Clamp(x, lo, hi) == IF x < lo THEN lo ELSE IF x > hi THEN hi ELSE x

\* C21: for every option the caller gave, the utterance handed to the platform
\* carries the value clamped to its range (rate and pitch 0.5..2.0, volume
\* 0.0..1.0), so a value inside the range, volume 0.0 included, is passed on as
\* it is.
C21_OptionsClamped ==
    \A i \in 1..3 :
       (uttParams.asked # <<>> /\ uttParams.asked[i] # <<>>)
          => uttParams.handed[i] =
                (IF i = 3 THEN Clamp(uttParams.asked[i][1], 0, 10)
                          ELSE Clamp(uttParams.asked[i][1], 5, 20))

\* C22: speaking a message never changes the content the UI holds for any
\* message; the text handed to the platform is the content with every occurrence
\* of the product name replaced; and a speak call with the same content as the
\* one before it hands the platform the same text.
C22_SubstitutionOnlyOnSpokenCopy ==
    [][/\ messageText' = messageText
       /\ (last'.op = "handleSpeakMessage" /\ nextUtter' # nextUtter)
             => /\ uttText'.from = messageText[last'.val]
                /\ \A i \in 1..Len(uttText'.handed) : ~MatchesAt(uttText'.handed, i)
                /\ (\E i \in 1..Len(uttText'.from) : MatchesAt(uttText'.from, i))
                      \/ uttText'.handed = uttText'.from
                /\ (nextUtter > 1 /\ uttText'.from = uttText.from)
                      => uttText'.handed = uttText.handed]_vars

\* C22, witness: a message whose content holds the product name has been spoken
\* twice, the platform was handed a different text than the content, and the UI
\* still holds the content.
C22_Witness ==
    /\ last.op = "handleSpeakMessage"
    /\ nextUtter = 3
    /\ uttText.from = messageText[last.val]
    /\ uttText.handed # uttText.from
    /\ messageText["m1"] = messageText["m2"]

\* C23: isSupported() changes no state of the coordinator, of the recognizer or
\* of the synthesis queue and answers no caller; it returns true only if the
\* recognizer is present; a recognizer that is present stays present; and a
\* startListening made while the recognizer is present is not rejected with the
\* 'not supported' message.
C23_IsSupportedIsPure ==
    [][/\ (last'.op = "isSupported")
             => /\ UNCHANGED stateVars
                /\ (last'.val = "true") => recognition
       /\ recognition => recognition'
       /\ (last'.op = "startListening" /\ recognition)
             => outcome'[nextCall] # Err(NotSupported)]_vars

\* C23, witness: isSupported() has returned true while a capture started after
\* the recognizer was built is in flight.
C23_Witness ==
    /\ last = Op("isSupported", "true")
    /\ nextCall > 1
    /\ outcome[nextCall - 1] = Pending
    /\ recState = "active"

\* The messages on their way to the backend.
Outgoing == saving \cup requests

\* C24: in the voice flow a voice message enters the way to the backend only in
\* the step in which the awaited capture hands over a non-empty transcript, and it
\* carries that transcript; when the capture has failed, or was cancelled by
\* stop() before it answered, no message is sent and the component's listening
\* flag is cleared.
C24_VoiceFlowSendsOnlyTranscripts ==
    [][/\ \A m \in Outgoing' \ Outgoing :
             m.voice => (m.content # "" /\ last' = Op("voiceTranscript", m.content))
       /\ (last'.op = "voiceError") => (Outgoing' = Outgoing /\ ~uiListening')
       /\ \A c \in awaited \ awaited' :
             (recCaller = c /\ CaptureCancelled)
                => (Outgoing' = Outgoing /\ ~uiListening')]_vars

\* C28: whenever the service is not listening, the recognizer has no event left
\* to deliver and no continuation of the voice flow is due, the component's
\* isListening flag is false.
C28_ListeningFlagFollowsService ==
    (~isListening /\ recState = "idle" /\ ~ContinuationReady) => ~uiListening

\* C29: the expiry of the timer armed for an utterance that is not the one
\* spoken last leaves the speaking indicator as it is.
C29_TimerLeavesLaterIndicator ==
    [][\A u \in timers \ timers' :
          (last'.op = "timer" /\ u < nextUtter - 1)
             => speakingMessageId' = speakingMessageId]_vars

\* The step calls geminiService.generateResponse: after the save, or, without a
\* session, within handleSendMessage itself.
RequestStarted ==
    \/ last'.op = "generateResponse"
    \/ /\ ~hasSession
       /\ \/ last'.op = "handleSendMessage" /\ trim(last'.val) # ""
          \/ last'.op = "voiceTranscript" /\ trim(last'.val) # ""

\* C30: no request to the backend is started while the service is speaking or
\* listening, and handleSendMessage with blank content changes nothing.
C30_NoRequestWhileSpeakingOrListening ==
    [][/\ RequestStarted => (~isSpeaking' /\ ~isListening')
       /\ (last'.op = "handleSendMessage" /\ trim(last'.val) = "")
             => UNCHANGED <<stateVars, uttVars, uiVars>>]_vars

====
